---- MODULE Spec2Model ----
(***************************************************************************)
(* The WebSocket hub of the gateway (gateway/src/index.js): upgrade-time   *)
(* JWT authentication, the two connection tables clientsByUser and         *)
(* clientsBySession, the per-connection message/close/error handlers and   *)
(* the Redis pub/sub bridge that fans session updates out to subscribers.  *)
(*                                                                         *)
(* Node runs every handler to completion on one thread, so each handler is *)
(* one action.  What the handlers cannot decide themselves (which frame a  *)
(* client sends, which token it presents, whether a write on a transport   *)
(* raises) is chosen by the environment.                                   *)
(*                                                                         *)
(* The reconnecting client of the frontend (services/websocket.ts) is the  *)
(* second component: Spec runs the hub with the client at rest, ClientSpec *)
(* runs the client's callbacks with the hub at rest.                       *)
(***************************************************************************)
EXTENDS Integers, Sequences, FiniteSets, TLC

\* Number of transports (sockets) that ever try to connect.
NumConns == 2

Conns == 1..NumConns
Users == {"u1", "u2"}
Topics == {"s1", "s2"}

\* JavaScript's undefined, as the value of a field an object does not have.
Undefined == "<undefined>"

(***************************************************************************)
(* JSON.  An object is a function from field names to string values.  A    *)
(* text on the wire is either not JSON at all, the JSON text null, or the  *)
(* encoding of an object.                                                  *)
(***************************************************************************)
EmptyObj == [f \in {} |-> ""]

Garbage == [valid |-> FALSE, isNull |-> FALSE, obj |-> EmptyObj]

NullText == [valid |-> TRUE, isNull |-> TRUE, obj |-> EmptyObj]

\* JSON.stringify of an object: fields whose value is undefined are left out.
JSONStringify(o) ==
    [valid |-> TRUE, isNull |-> FALSE,
     obj |-> [f \in {g \in DOMAIN o : o[g] # Undefined} |-> o[f]]]

\* JSON.parse: throws on a text that is not JSON, else yields null or the object.
JSONParse(text) ==
    [threw |-> ~text.valid, isNull |-> text.valid /\ text.isNull, obj |-> text.obj]

\* obj.f in JavaScript: undefined when the object has no such field.
Get(o, f) == IF f \in DOMAIN o THEN o[f] ELSE Undefined

\* { ...a, ...b }: the fields of both, b's value winning where both have one.
Spread(a, b) ==
    [f \in DOMAIN a \cup DOMAIN b |-> IF f \in DOMAIN b THEN b[f] ELSE a[f]]

(***************************************************************************)
(* Tokens presented in the query string of the upgrade request.            *)
(***************************************************************************)
Tokens ==
    {[present |-> FALSE, wellFormed |-> FALSE, signed |-> FALSE, expired |-> FALSE, user_id |-> "u1"],
     [present |-> TRUE, wellFormed |-> FALSE, signed |-> FALSE, expired |-> FALSE, user_id |-> "u1"],
     [present |-> TRUE, wellFormed |-> TRUE, signed |-> FALSE, expired |-> FALSE, user_id |-> "u1"],
     [present |-> TRUE, wellFormed |-> TRUE, signed |-> TRUE, expired |-> TRUE, user_id |-> "u1"]}
    \cup {[present |-> TRUE, wellFormed |-> TRUE, signed |-> TRUE, expired |-> FALSE, user_id |-> u] :
             u \in Users}

\* jwt.verify(token, JWT_SECRET) throws unless the token is well formed,
\* signed with the secret and not expired.
JwtVerifyThrows(token) == ~token.wellFormed \/ ~token.signed \/ token.expired

NoUser == [ok |-> FALSE, user_id |-> Undefined]

\* A variant that decodes the payload without verifying it (jwt.decode).
authenticateWS_DecodeOnly(token) ==
    IF ~token.present \/ ~token.wellFormed THEN NoUser
    ELSE [ok |-> TRUE, user_id |-> token.user_id]

\* authenticateWS: null (NoUser) for a missing token and for every error of
\* jwt.verify, else the decoded payload.
authenticateWS(token) ==
    IF ~token.present THEN NoUser
    ELSE IF JwtVerifyThrows(token) THEN NoUser
    ELSE [ok |-> TRUE, user_id |-> token.user_id]

(***************************************************************************)
(* State.                                                                  *)
(***************************************************************************)
VARIABLES
    readyState,          \* per transport: NONE, REJECTED, OPEN, CLOSING, CLOSED
    wsUser,              \* ws.user.user_id: the identity a transport was accepted with
    subscribedSessions,  \* ws.subscribedSessions (a Set never created is empty)
    clientsByUser,       \* Map userId -> Set<WebSocket>
    clientsBySession,    \* Map sessionId -> Set<WebSocket>, in insertion order
    sent,                \* messages the last handler wrote and the transport took,
                         \* in the order of the writes
    logged,              \* what the last handler's catch block logged
    last,                \* the last event handled: its kind, connection and input
    cleanups,            \* history: how often the 'close' clean-up ran per transport
    asked,               \* history: per registered connection, the topics whose
                         \* latest processed control frame is a subscribe_session
    firstSent,           \* history: the first message written on each transport
    reply,               \* per transport: the HTTP response to its upgrade request
    channel,             \* redisSubscriber: "subscribed" to research_updates, or "down"
    socks,               \* client: the WebSockets the service has created, in order
    thisWs,              \* client: this.ws, an index of socks, or 0 for null
    reconnectAttempts,   \* client: this.reconnectAttempts
    timers,              \* client: the timers set by attemptReconnect, in order
    reconnectTimeout,    \* client: this.reconnectTimeout, an index of timers, or 0
    wanted               \* client: the topics of the mounted session pages

hubVars == <<readyState, wsUser, subscribedSessions, clientsByUser, clientsBySession,
             sent, logged, last, cleanups, asked, firstSent, reply, channel>>

clientVars == <<socks, thisWs, reconnectAttempts, timers, reconnectTimeout, wanted>>

vars == <<hubVars, clientVars>>

\* The history of one handler that runs no clean-up and reads no control frame.
history == <<cleanups, asked>>

registry == <<clientsByUser, clientsBySession>>

NoInput == Garbage

Event(op, c, data) == [op |-> op, c |-> c, data |-> data]

\* The status lines a transport can read in answer to its upgrade request:
\* the one the hub writes itself and the one wss.handleUpgrade writes.
NoReply == ""

Unauthorized == "HTTP/1.1 401 Unauthorized"

SwitchingProtocols == "HTTP/1.1 101 Switching Protocols"

Init ==
    /\ readyState = [c \in Conns |-> "NONE"]
    /\ wsUser = [c \in Conns |-> Undefined]
    /\ subscribedSessions = [c \in Conns |-> {}]
    /\ clientsByUser = EmptyObj
    /\ clientsBySession = EmptyObj
    /\ sent = <<>>
    /\ logged = "nothing"
    /\ last = Event("listen", 0, NoInput)
    /\ cleanups = [c \in Conns |-> 0]
    /\ asked = [c \in Conns |-> {}]
    /\ firstSent = [c \in Conns |-> NoInput]
    /\ reply = [c \in Conns |-> NoReply]
    /\ channel = "down"
    /\ socks = <<>>
    /\ thisWs = 0
    /\ reconnectAttempts = 0
    /\ timers = <<>>
    /\ reconnectTimeout = 0
    /\ wanted = {}

(***************************************************************************)
(* JavaScript Map and Set operations on the two tables.  A Set iterates in *)
(* insertion order, so the subscriber sets are sequences without repeats.  *)
(***************************************************************************)
Has(map, k) == k \in DOMAIN map

MapSet(map, k, v) == [x \in DOMAIN map \cup {k} |-> IF x = k THEN v ELSE map[x]]

MapDelete(map, k) == [x \in DOMAIN map \ {k} |-> map[x]]

Members(list) == {list[i] : i \in DOMAIN list}

\* A variant that keeps subscribers in an array: push, with repeats.
SetAdd_Push(list, ws) == Append(list, ws)

\* Set.prototype.add on an ordered set: no effect when already a member.
SetAdd(list, ws) == IF ws \in Members(list) THEN list ELSE Append(list, ws)

\* Set.prototype.delete on an ordered set.
SetDelete(list, ws) == SelectSeq(list, LAMBDA x : x # ws)

\* What the environment decides for one run of a handler: the set of
\* connections on which a ws.send would raise.  A handler leaves its try block
\* at the first send that raises, so one such connection is all it can meet.
Failures == {{}} \cup {{c} : c \in Conns}

\* ws.send outside the fan-out: the message reaches the client only on an open
\* transport on which the write does not raise.
WsSend(c, text, failing) ==
    [sent |-> IF readyState[c] = "OPEN" /\ c \notin failing
              THEN <<[to |-> c, text |-> text]>> ELSE <<>>,
     threw |-> c \in failing]

\* The first message written on each transport, given the writes of a handler.
RECURSIVE NoteFirst(_, _)
NoteFirst(first, msgs) ==
    IF msgs = <<>> THEN first
    ELSE LET m == Head(msgs)
         IN NoteFirst(IF first[m.to] = NoInput THEN [first EXCEPT ![m.to] = m.text]
                      ELSE first,
                      Tail(msgs))

(***************************************************************************)
(* server.on('upgrade') followed, for an accepted token, by the            *)
(* wss.on('connection') handler.  The connected notice is written on a     *)
(* transport that has just completed its handshake.  Transports are        *)
(* numbered in the order in which their upgrade requests arrive.           *)
(***************************************************************************)
\* A variant that does not name the identity.
ConnectedNotice_NoSubject(userId) ==
    JSONStringify([type |-> "connected",
                   message |-> "Connected to AI Research Gateway"])

ConnectedNotice(userId) ==
    JSONStringify([type |-> "connected",
                   message |-> "Connected to AI Research Gateway",
                   user_id |-> userId])

\* A variant that stores a fresh Set under the identity on every connection.
ConnectionIndex_Replace(map, ws, userId) == MapSet(map, userId, {ws})

\* "Track user connection": the identity's Set is created when absent.
ConnectionIndex(map, ws, userId) ==
    LET byUser == IF Has(map, userId) THEN map ELSE MapSet(map, userId, {})
    IN MapSet(byUser, userId, byUser[userId] \cup {ws})

\* A variant that gives a new connection the topics of the connections its
\* identity already has.
OnConnection_Inherit(c, user, token) ==
    LET userId == user.user_id
        mine == IF Has(clientsByUser, userId) THEN clientsByUser[userId] ELSE {}
        held == {k \in DOMAIN clientsBySession :
                    Members(clientsBySession[k]) \cap mine # {}}
    IN /\ readyState' = [readyState EXCEPT ![c] = "OPEN"]
       /\ wsUser' = [wsUser EXCEPT ![c] = userId]
       /\ clientsByUser' = ConnectionIndex(clientsByUser, c, userId)
       /\ clientsBySession' =
              [k \in DOMAIN clientsBySession |->
                  IF k \in held THEN SetAdd(clientsBySession[k], c)
                  ELSE clientsBySession[k]]
       /\ subscribedSessions' = [subscribedSessions EXCEPT ![c] = held]
       /\ sent' = <<[to |-> c, text |-> ConnectedNotice(userId)]>>
       /\ firstSent' = NoteFirst(firstSent, sent')
       /\ logged' = "nothing"
       /\ last' = Event("upgrade", c, token)
       /\ reply' = [reply EXCEPT ![c] = SwitchingProtocols]
       /\ UNCHANGED history

\* A variant that turns the connection away with 503 while the broadcast
\* channel is down.
OnConnection_NeedsChannel(c, user, token) ==
    LET userId == user.user_id
    IN IF channel = "subscribed"
       THEN /\ readyState' = [readyState EXCEPT ![c] = "OPEN"]
            /\ wsUser' = [wsUser EXCEPT ![c] = userId]
            /\ clientsByUser' = ConnectionIndex(clientsByUser, c, userId)
            /\ sent' = <<[to |-> c, text |-> ConnectedNotice(userId)]>>
            /\ firstSent' = NoteFirst(firstSent, sent')
            /\ logged' = "nothing"
            /\ last' = Event("upgrade", c, token)
            /\ reply' = [reply EXCEPT ![c] = SwitchingProtocols]
            /\ UNCHANGED <<subscribedSessions, clientsBySession, history>>
       ELSE /\ readyState' = [readyState EXCEPT ![c] = "REJECTED"]
            /\ reply' = [reply EXCEPT ![c] = "HTTP/1.1 503 Service Unavailable"]
            /\ sent' = <<>>
            /\ logged' = "nothing"
            /\ last' = Event("upgrade", c, token)
            /\ UNCHANGED <<wsUser, subscribedSessions, clientsByUser, clientsBySession,
                           history, firstSent>>

OnConnection(c, user, token) ==
    LET userId == user.user_id
    IN /\ readyState' = [readyState EXCEPT ![c] = "OPEN"]
       /\ wsUser' = [wsUser EXCEPT ![c] = userId]
       /\ clientsByUser' = ConnectionIndex(clientsByUser, c, userId)
       /\ sent' = <<[to |-> c, text |-> ConnectedNotice(userId)]>>
       /\ firstSent' = NoteFirst(firstSent, sent')
       /\ logged' = "nothing"
       /\ last' = Event("upgrade", c, token)
       /\ reply' = [reply EXCEPT ![c] = SwitchingProtocols]
       /\ UNCHANGED <<subscribedSessions, clientsBySession, history>>

\* A variant whose response names what was wrong with the token.
RejectUpgrade_Reason(c, token) ==
    /\ readyState' = [readyState EXCEPT ![c] = "REJECTED"]
    /\ reply' = [reply EXCEPT ![c] =
                    IF ~token.present THEN "HTTP/1.1 401 Token required"
                    ELSE IF ~token.wellFormed THEN "HTTP/1.1 401 jwt malformed"
                    ELSE IF ~token.signed THEN "HTTP/1.1 401 invalid signature"
                    ELSE "HTTP/1.1 401 jwt expired"]
    /\ sent' = <<>>
    /\ logged' = "nothing"
    /\ last' = Event("upgrade", c, token)
    /\ UNCHANGED <<wsUser, subscribedSessions, clientsByUser, clientsBySession,
                   history, firstSent>>

\* 401 on the raw socket, which is then destroyed.
RejectUpgrade(c, token) ==
    /\ readyState' = [readyState EXCEPT ![c] = "REJECTED"]
    /\ reply' = [reply EXCEPT ![c] = Unauthorized]
    /\ sent' = <<>>
    /\ logged' = "nothing"
    /\ last' = Event("upgrade", c, token)
    /\ UNCHANGED <<wsUser, subscribedSessions, clientsByUser, clientsBySession,
                   history, firstSent>>

Upgrade(c, token) ==
    /\ readyState[c] = "NONE"
    /\ \A b \in Conns : b < c => readyState[b] # "NONE"
    /\ LET user == authenticateWS(token)
       IN IF ~user.ok THEN RejectUpgrade(c, token) ELSE OnConnection(c, user, token)
    /\ UNCHANGED <<channel, clientVars>>

(***************************************************************************)
(* Frames a client can write on its connection.                            *)
(***************************************************************************)
SubscribeFrame(s) == JSONStringify([type |-> "subscribe_session", session_id |-> s])

UnsubscribeFrame(s) == JSONStringify([type |-> "unsubscribe_session", session_id |-> s])

Frames ==
    {Garbage, NullText, JSONStringify([type |-> "ping", session_id |-> "s1"])}
    \cup {SubscribeFrame(s) : s \in Topics}
    \cup {UnsubscribeFrame(s) : s \in Topics}

(***************************************************************************)
(* ws.on('message'): the subscribe_session branch.                         *)
(***************************************************************************)
SubscribeIndex(map, ws, sessionId) ==
    LET withKey == IF Has(map, sessionId) THEN map ELSE MapSet(map, sessionId, <<>>)
    IN MapSet(withKey, sessionId, SetAdd(withKey[sessionId], ws))

\* A variant that does not record the topic on the connection.
SubscribeOwn_Skip(own, sessionId) == own

SubscribeOwn(own, sessionId) == own \cup {sessionId}

\* A variant that acknowledges without naming the topic.
SubscribedAck_NoTopic(sessionId) == JSONStringify([type |-> "subscribed"])

SubscribedAck(sessionId) ==
    JSONStringify([type |-> "subscribed", session_id |-> sessionId])

\* A variant that keeps the last envelope and replays it to a new subscriber.
SubscribeSession_Replay(c, sessionId, data, failing) ==
    LET w == WsSend(c, SubscribedAck(sessionId), failing)
        replay == IF last.op = "redis" /\ last.data.valid /\ ~last.data.isNull
                     /\ Get(last.data.obj, "session_id") = sessionId
                     /\ readyState[c] = "OPEN" /\ ~w.threw
                  THEN <<[to |-> c,
                          text |-> JSONStringify(Spread([type |-> "session_update"],
                                                        last.data.obj))]>>
                  ELSE <<>>
    IN /\ clientsBySession' = SubscribeIndex(clientsBySession, c, sessionId)
       /\ subscribedSessions' =
              [subscribedSessions EXCEPT ![c] = SubscribeOwn(@, sessionId)]
       /\ sent' = w.sent \o replay
       /\ firstSent' = NoteFirst(firstSent, sent')
       /\ logged' = IF w.threw THEN "WebSocket message error" ELSE "nothing"
       /\ last' = Event("message", c, data)
       /\ asked' = [asked EXCEPT ![c] = @ \cup {sessionId}]
       /\ UNCHANGED <<readyState, wsUser, clientsByUser, cleanups>>

\* A variant that undoes the subscription when the acknowledgement cannot be
\* written.
SubscribeSession_Rollback(c, sessionId, data, failing) ==
    LET w == WsSend(c, SubscribedAck(sessionId), failing)
    IN /\ clientsBySession' = IF w.threw THEN clientsBySession
                              ELSE SubscribeIndex(clientsBySession, c, sessionId)
       /\ subscribedSessions' =
              IF w.threw THEN subscribedSessions
              ELSE [subscribedSessions EXCEPT ![c] = SubscribeOwn(@, sessionId)]
       /\ sent' = w.sent
       /\ firstSent' = NoteFirst(firstSent, sent')
       /\ logged' = IF w.threw THEN "WebSocket message error" ELSE "nothing"
       /\ last' = Event("message", c, data)
       /\ asked' = [asked EXCEPT ![c] = @ \cup {sessionId}]
       /\ UNCHANGED <<readyState, wsUser, clientsByUser, cleanups>>

SubscribeSession(c, sessionId, data, failing) ==
    LET w == WsSend(c, SubscribedAck(sessionId), failing)
    IN /\ clientsBySession' = SubscribeIndex(clientsBySession, c, sessionId)
       /\ subscribedSessions' =
              [subscribedSessions EXCEPT ![c] = SubscribeOwn(@, sessionId)]
       /\ sent' = w.sent
       /\ firstSent' = NoteFirst(firstSent, sent')
       /\ logged' = IF w.threw THEN "WebSocket message error" ELSE "nothing"
       /\ last' = Event("message", c, data)
       /\ asked' = [asked EXCEPT ![c] = @ \cup {sessionId}]
       /\ UNCHANGED <<readyState, wsUser, clientsByUser, cleanups>>

(***************************************************************************)
(* ws.on('message'): the unsubscribe_session branch.  The connection is    *)
(* deleted from the topic's set; the key stays in the Map.                 *)
(***************************************************************************)
\* A variant that looks the topic up and leaves its set as it is.
UnsubscribeIndex_NoDelete(map, ws, sessionId) ==
    IF Has(map, sessionId) THEN MapSet(map, sessionId, map[sessionId]) ELSE map

\* A variant that deletes the topic's key, and with it every subscriber.
UnsubscribeIndex_DropTopic(map, ws, sessionId) ==
    IF Has(map, sessionId) THEN MapDelete(map, sessionId) ELSE map

\* A variant that creates the topic's set when the Map has none.
UnsubscribeIndex_CreateKey(map, ws, sessionId) ==
    LET withKey == IF Has(map, sessionId) THEN map ELSE MapSet(map, sessionId, <<>>)
    IN MapSet(withKey, sessionId, SetDelete(withKey[sessionId], ws))

UnsubscribeIndex(map, ws, sessionId) ==
    IF Has(map, sessionId) THEN MapSet(map, sessionId, SetDelete(map[sessionId], ws))
    ELSE map

UnsubscribeOwn(own, sessionId) == own \ {sessionId}

UnsubscribeSession(c, sessionId, data) ==
    /\ clientsBySession' = UnsubscribeIndex(clientsBySession, c, sessionId)
    /\ subscribedSessions' =
           [subscribedSessions EXCEPT ![c] = UnsubscribeOwn(@, sessionId)]
    /\ sent' = <<>>
    /\ logged' = "nothing"
    /\ last' = Event("message", c, data)
    /\ asked' = [asked EXCEPT ![c] = @ \ {sessionId}]
    /\ UNCHANGED <<readyState, wsUser, clientsByUser, cleanups, firstSent>>

\* A variant that answers a frame it cannot use by terminating the connection.
IgnoreFrame_Terminate(c, data, threw) ==
    /\ readyState' = [readyState EXCEPT ![c] = "CLOSING"]
    /\ sent' = <<>>
    /\ logged' = IF threw THEN "WebSocket message error" ELSE "nothing"
    /\ last' = Event("message", c, data)
    /\ UNCHANGED <<wsUser, subscribedSessions, clientsByUser, clientsBySession,
                   history, firstSent>>

\* A frame on which JSON.parse or msg.type throws (the catch block logs), or
\* that matches neither branch: nothing else happens.
IgnoreFrame(c, data, threw) ==
    /\ sent' = <<>>
    /\ logged' = IF threw THEN "WebSocket message error" ELSE "nothing"
    /\ last' = Event("message", c, data)
    /\ UNCHANGED <<readyState, wsUser, subscribedSessions, clientsByUser, clientsBySession,
                   history, firstSent>>

\* ws.on('message').  The handler stays registered until the 'close' event, so
\* a frame still buffered when the transport starts closing is handled too.
OnMessage(c, data, failing) ==
    /\ readyState[c] \in {"OPEN", "CLOSING"}
    /\ LET p == JSONParse(data)
           type == Get(p.obj, "type")
           sessionId == Get(p.obj, "session_id")
       IN IF p.threw \/ p.isNull THEN IgnoreFrame(c, data, TRUE)
          ELSE IF type = "subscribe_session"
               THEN SubscribeSession(c, sessionId, data, failing)
          ELSE IF type = "unsubscribe_session"
               THEN UnsubscribeSession(c, sessionId, data)
          ELSE IgnoreFrame(c, data, FALSE)
    /\ UNCHANGED <<reply, channel, clientVars>>

(***************************************************************************)
(* ws.on('close'): the connection leaves clientsByUser, and every topic in *)
(* its own subscribedSessions; a set emptied here is deleted with its key. *)
(* No handler runs for the connection after this one and the tables no     *)
(* longer refer to it (unless the handler left it there): the object is    *)
(* released, and its subscribedSessions stops being state.  wsUser keeps   *)
(* the identity the transport was accepted with.                           *)
(***************************************************************************)
\* A variant without the size check: the emptied set stays under its key.
CloseUsers_NoPrune(map, ws, userId) ==
    IF Has(map, userId) THEN MapSet(map, userId, map[userId] \ {ws}) ELSE map

\* A variant that deletes the identity's key whenever one of its connections
\* closes.
CloseUsers_DropKey(map, ws, userId) ==
    IF Has(map, userId) THEN MapDelete(map, userId) ELSE map

CloseUsers(map, ws, userId) ==
    IF Has(map, userId)
    THEN LET rest == map[userId] \ {ws}
         IN IF rest = {} THEN MapDelete(map, userId) ELSE MapSet(map, userId, rest)
    ELSE map

CloseIndex(map, ws, own) ==
    LET mine == own \cap DOMAIN map
        emptied == {k \in mine : SetDelete(map[k], ws) = <<>>}
    IN [k \in DOMAIN map \ emptied |->
           IF k \in mine THEN SetDelete(map[k], ws) ELSE map[k]]

OnClose(c) ==
    /\ readyState[c] \in {"OPEN", "CLOSING"}
    /\ readyState' = [readyState EXCEPT ![c] = "CLOSED"]
    /\ clientsByUser' = CloseUsers(clientsByUser, c, wsUser[c])
    /\ clientsBySession' = CloseIndex(clientsBySession, c, subscribedSessions[c])
    /\ sent' = <<>>
    /\ logged' = "nothing"
    /\ subscribedSessions' = [subscribedSessions EXCEPT ![c] = {}]
    /\ last' = Event("close", c, NoInput)
    /\ cleanups' = [cleanups EXCEPT ![c] = @ + 1]
    /\ asked' = [asked EXCEPT ![c] = {}]
    /\ UNCHANGED <<wsUser, firstSent, reply, channel, clientVars>>

\* A variant whose 'error' handler runs the clean-up of the 'close' handler.
OnError_Cleanup(c) ==
    /\ readyState[c] \in {"OPEN", "CLOSING"}
    /\ readyState' = [readyState EXCEPT ![c] = "CLOSING"]
    /\ clientsByUser' = CloseUsers(clientsByUser, c, wsUser[c])
    /\ clientsBySession' = CloseIndex(clientsBySession, c, subscribedSessions[c])
    /\ sent' = <<>>
    /\ logged' = "WebSocket error"
    /\ last' = Event("error", c, NoInput)
    /\ cleanups' = [cleanups EXCEPT ![c] = @ + 1]
    /\ UNCHANGED <<wsUser, subscribedSessions, asked, firstSent, reply, channel, clientVars>>

\* ws.on('error'): the handler only logs.  An error on a transport that is
\* not closed yet puts it on its way to closed; the event can also be emitted
\* once the 'close' event has been.
OnError(c) ==
    /\ readyState[c] \in {"OPEN", "CLOSING", "CLOSED"}
    /\ readyState' = [readyState EXCEPT ![c] = IF @ = "CLOSED" THEN @ ELSE "CLOSING"]
    /\ sent' = <<>>
    /\ logged' = "WebSocket error"
    /\ last' = Event("error", c, NoInput)
    /\ UNCHANGED <<wsUser, subscribedSessions, clientsByUser, clientsBySession,
                   history, firstSent, reply, channel, clientVars>>

\* The closing handshake starts: readyState leaves OPEN before the 'close'
\* event is emitted.  No handler of the hub runs.
TransportClosing(c) ==
    /\ readyState[c] = "OPEN"
    /\ readyState' = [readyState EXCEPT ![c] = "CLOSING"]
    /\ sent' = <<>>
    /\ logged' = "nothing"
    /\ last' = Event("closing", c, NoInput)
    /\ UNCHANGED <<wsUser, subscribedSessions, clientsByUser, clientsBySession,
                   history, firstSent, reply, channel, clientVars>>

(***************************************************************************)
(* redisSubscriber.on('message'): the bridge.                              *)
(***************************************************************************)
Envelope(s) == JSONStringify([session_id |-> s, phase |-> "evaluation"])

TypedEnvelope(s) ==
    JSONStringify([type |-> "phase_change", session_id |-> s, phase |-> "evaluation"])

Envelopes ==
    {Garbage, NullText, JSONStringify([phase |-> "evaluation"]), TypedEnvelope("s1")}
    \cup {Envelope(s) : s \in Topics}

\* A JavaScript value used as a condition.
Truthy(v) == v \notin {Undefined, ""}

\* A variant with the marker written after the spread: it always wins.
SessionUpdate_MarkerLast(update) ==
    JSONStringify(Spread(update, [type |-> "session_update"]))

SessionUpdate(update) == JSONStringify(Spread([type |-> "session_update"], update))

\* The for loop over the topic's set, inside the handler's single try block:
\* connections that are not open are skipped, and the first ws.send that
\* raises leaves the loop.
RECURSIVE FanOut(_, _)
FanOut(list, failing) ==
    IF list = <<>> THEN [delivered |-> <<>>, threw |-> FALSE]
    ELSE LET ws == Head(list)
         IN IF readyState[ws] # "OPEN" THEN FanOut(Tail(list), failing)
            ELSE IF ws \in failing THEN [delivered |-> <<>>, threw |-> TRUE]
            ELSE LET rest == FanOut(Tail(list), failing)
                 IN [delivered |-> <<ws>> \o rest.delivered, threw |-> rest.threw]

\* A variant that iterates the subscribers of every topic.
Audience_EveryTopic(map, sessionId) ==
    LET subs(k) == IF Has(map, k) THEN map[k] ELSE <<>>
    IN subs("s1") \o subs("s2")

\* clientsBySession.get(sessionId): the Set the loop iterates.
Audience(map, sessionId) == map[sessionId]

\* A variant whose loop deletes the connections it finds not open from the
\* set it is iterating.
OnRedisMessage_Prune(message, failing) ==
    LET p == JSONParse(message)
        sessionId == Get(p.obj, "session_id")
        reached == ~(p.threw \/ p.isNull) /\ Truthy(sessionId)
                      /\ Has(clientsBySession, sessionId)
        fan == IF p.threw \/ p.isNull THEN [delivered |-> <<>>, threw |-> TRUE]
               ELSE IF reached
               THEN FanOut(Audience(clientsBySession, sessionId), failing)
               ELSE [delivered |-> <<>>, threw |-> FALSE]
    IN /\ sent' = [i \in DOMAIN fan.delivered |->
                      [to |-> fan.delivered[i], text |-> SessionUpdate(p.obj)]]
       /\ clientsBySession' =
              IF reached
              THEN MapSet(clientsBySession, sessionId,
                          SelectSeq(clientsBySession[sessionId],
                                    LAMBDA ws : readyState[ws] = "OPEN"))
              ELSE clientsBySession
       /\ firstSent' = NoteFirst(firstSent, sent')
       /\ logged' = IF fan.threw THEN "Redis message processing error" ELSE "nothing"
       /\ last' = Event("redis", 0, message)
       /\ UNCHANGED <<readyState, wsUser, subscribedSessions, clientsByUser,
                      history, reply, channel, clientVars>>

OnRedisMessage(message, failing) ==
    LET p == JSONParse(message)
        sessionId == Get(p.obj, "session_id")
        fan == IF p.threw \/ p.isNull THEN [delivered |-> <<>>, threw |-> TRUE]
               ELSE IF Truthy(sessionId) /\ Has(clientsBySession, sessionId)
               THEN FanOut(Audience(clientsBySession, sessionId), failing)
               ELSE [delivered |-> <<>>, threw |-> FALSE]
    IN /\ sent' = [i \in DOMAIN fan.delivered |->
                      [to |-> fan.delivered[i], text |-> SessionUpdate(p.obj)]]
       /\ firstSent' = NoteFirst(firstSent, sent')
       /\ logged' = IF fan.threw THEN "Redis message processing error" ELSE "nothing"
       /\ last' = Event("redis", 0, message)
       /\ UNCHANGED <<readyState, wsUser, subscribedSessions, clientsByUser, clientsBySession,
                      history, reply, channel, clientVars>>

\* The connections whose ws.send the handler can reach for this input: a write
\* that is never attempted cannot raise.
FrameWrites(c, data) ==
    IF Get(JSONParse(data).obj, "type") = "subscribe_session" THEN {c} ELSE {}

EnvelopeWrites(message) ==
    LET sessionId == Get(JSONParse(message).obj, "session_id")
    IN IF Has(clientsBySession, sessionId)
       THEN {c \in Members(clientsBySession[sessionId]) : readyState[c] = "OPEN"}
       ELSE {}

\* A frame arrives on connection c, and the environment decides which writes raise.
FrameArrives(c, data) ==
    \E failing \in SUBSET FrameWrites(c, data) : OnMessage(c, data, failing)

\* An envelope is published on research_updates: the 'message' event is
\* emitted only while redisSubscriber is subscribed to the channel.
EnvelopeArrives(message) ==
    /\ channel = "subscribed"
    /\ \E failing \in Failures :
           /\ failing \subseteq EnvelopeWrites(message)
           /\ OnRedisMessage(message, failing)

(***************************************************************************)
(* setupRedis: the subscription to research_updates and the 'error'        *)
(* handler.  The hub starts listening before setupRedis runs, and the      *)
(* handlers of redisSubscriber touch nothing of the hub: they only log.    *)
(***************************************************************************)
\* The parts of the hub that no handler of redisSubscriber's connection touches.
hubTables == <<readyState, wsUser, subscribedSessions, clientsByUser, clientsBySession,
               history, firstSent, reply>>

\* The subscribe callback without err; ioredis subscribes again by itself when
\* it has reconnected.
RedisSubscribed ==
    /\ channel = "down"
    /\ channel' = "subscribed"
    /\ sent' = <<>>
    /\ logged' = "nothing"
    /\ last' = Event("redis_subscribed", 0, NoInput)
    /\ UNCHANGED <<hubTables, clientVars>>

\* The subscribe callback with err: logged, and nothing else.
RedisSubscribeError ==
    /\ channel = "down"
    /\ channel' = "down"
    /\ sent' = <<>>
    /\ logged' = "Redis subscribe error"
    /\ last' = Event("redis_subscribe_error", 0, NoInput)
    /\ UNCHANGED <<hubTables, clientVars>>

\* redisSubscriber.on('error'): the connection to Redis failed or was lost.
RedisError ==
    /\ channel' = "down"
    /\ sent' = <<>>
    /\ logged' = "Redis error"
    /\ last' = Event("redis_error", 0, NoInput)
    /\ UNCHANGED <<hubTables, clientVars>>

Next ==
    \/ \E c \in Conns : \E token \in Tokens : Upgrade(c, token)
    \/ \E c \in Conns : \E data \in Frames : FrameArrives(c, data)
    \/ \E c \in Conns : OnClose(c)
    \/ \E c \in Conns : OnError(c)
    \/ \E c \in Conns : TransportClosing(c)
    \/ \E message \in Envelopes : EnvelopeArrives(message)
    \/ RedisSubscribed
    \/ RedisSubscribeError
    \/ RedisError

Spec == Init /\ [][Next]_vars

(***************************************************************************)
(* The reconnecting client: WebSocketService and the pages that use it.    *)
(* A socket is a record: its readyState, who created it (a connect() call  *)
(* of the application, or a reconnect timer) and the topics for which it   *)
(* has carried a subscribe_session frame not followed by an unsubscribe.   *)
(***************************************************************************)
MaxSockets == 7

MaxLogins == 2

\* The session whose page the user opens and leaves.
PageIds == {"s1"}

maxReconnectAttempts == 5

BaseDelay == 1000

MaxDelay == 30000

Min(a, b) == IF a <= b THEN a ELSE b

\* new WebSocket(...), assigned to this.ws; the handlers are set on it.
connect(by) ==
    /\ Len(socks) < MaxSockets
    /\ socks' = Append(socks, [state |-> "CONNECTING", by |-> by, subs |-> {}])
    /\ thisWs' = Len(socks) + 1

\* A variant that counts from 0: the first delay is the base delay itself.
ReconnectDelay_FromBase(attempts) == Min(BaseDelay * 2 ^ (attempts - 1), MaxDelay)

\* The delay of the timer, computed from the counter already incremented.
ReconnectDelay(attempts) == Min(BaseDelay * 2 ^ attempts, MaxDelay)

\* A variant without the attempt limit.
attemptReconnect_NoLimit ==
    /\ reconnectAttempts' = reconnectAttempts + 1
    /\ timers' = Append(timers, [state |-> "PENDING",
                                 delay |-> ReconnectDelay(reconnectAttempts')])
    /\ reconnectTimeout' = Len(timers) + 1

attemptReconnect ==
    IF reconnectAttempts >= maxReconnectAttempts
    THEN UNCHANGED <<reconnectAttempts, timers, reconnectTimeout>>
    ELSE /\ reconnectAttempts' = reconnectAttempts + 1
         /\ timers' = Append(timers, [state |-> "PENDING",
                                      delay |-> ReconnectDelay(reconnectAttempts')])
         /\ reconnectTimeout' = Len(timers) + 1

\* login and loadUser of the auth store call connect(token).
Login ==
    /\ Cardinality({s \in DOMAIN socks : socks[s].by = "connect"}) < MaxLogins
    /\ connect("connect")
    /\ UNCHANGED <<reconnectAttempts, timers, reconnectTimeout, wanted, hubVars>>

\* A variant of ws.onopen that leaves the attempt counter as it is.
SocketOpens_NoReset(s) ==
    /\ socks[s].state = "CONNECTING"
    /\ socks' = [socks EXCEPT ![s].state = "OPEN"]
    /\ UNCHANGED <<reconnectAttempts, thisWs, timers, reconnectTimeout, wanted, hubVars>>

\* ws.onopen
SocketOpens(s) ==
    /\ socks[s].state = "CONNECTING"
    /\ socks' = [socks EXCEPT ![s].state = "OPEN"]
    /\ reconnectAttempts' = 0
    /\ UNCHANGED <<thisWs, timers, reconnectTimeout, wanted, hubVars>>

\* ws.onclose
SocketCloses(s) ==
    /\ socks[s].state \in {"CONNECTING", "OPEN", "CLOSING"}
    /\ socks' = [socks EXCEPT ![s].state = "CLOSED"]
    /\ attemptReconnect
    /\ UNCHANGED <<thisWs, wanted, hubVars>>

\* The callback of setTimeout: connect(token) again.
TimerFires(t) ==
    /\ timers[t].state = "PENDING"
    /\ timers' = [timers EXCEPT ![t].state = "FIRED"]
    /\ connect("reconnect")
    /\ UNCHANGED <<reconnectAttempts, reconnectTimeout, wanted, hubVars>>

\* disconnect(), called by logout.
disconnect ==
    /\ timers' = IF reconnectTimeout # 0 /\ timers[reconnectTimeout].state = "PENDING"
                 THEN [timers EXCEPT ![reconnectTimeout].state = "CLEARED"]
                 ELSE timers
    /\ socks' = IF thisWs # 0 /\ socks[thisWs].state \in {"CONNECTING", "OPEN"}
                THEN [socks EXCEPT ![thisWs].state = "CLOSING"]
                ELSE socks
    /\ thisWs' = 0
    /\ UNCHANGED <<reconnectAttempts, reconnectTimeout, wanted, hubVars>>

\* A variant of send(data) that also writes on a socket that is connecting.
CanSend_Connecting == thisWs # 0 /\ socks[thisWs].state \in {"CONNECTING", "OPEN"}

\* send(data): the frame is written only on an open this.ws.
CanSend == thisWs # 0 /\ socks[thisWs].state = "OPEN"

\* The session page mounts: subscribeSession(id).  One session page is shown
\* at a time.
subscribeSession(T) ==
    /\ wanted = {}
    /\ wanted' = wanted \cup {T}
    /\ socks' = IF CanSend THEN [socks EXCEPT ![thisWs].subs = @ \cup {T}] ELSE socks
    /\ UNCHANGED <<thisWs, reconnectAttempts, timers, reconnectTimeout, hubVars>>

\* The session page unmounts: unsubscribeSession(id).
unsubscribeSession(T) ==
    /\ T \in wanted
    /\ wanted' = wanted \ {T}
    /\ socks' = IF CanSend THEN [socks EXCEPT ![thisWs].subs = @ \ {T}] ELSE socks
    /\ UNCHANGED <<thisWs, reconnectAttempts, timers, reconnectTimeout, hubVars>>

ClientNext ==
    \/ Login
    \/ \E s \in DOMAIN socks : SocketOpens(s)
    \/ \E s \in DOMAIN socks : SocketCloses(s)
    \/ \E t \in DOMAIN timers : TimerFires(t)
    \/ disconnect
    \/ \E T \in PageIds : subscribeSession(T)
    \/ \E T \in PageIds : unsubscribeSession(T)

ClientSpec == Init /\ [][ClientNext]_vars

(***************************************************************************)
(* The client against a server that cannot be reached: no socket ever      *)
(* opens.  Every socket the service creates closes, and every timer it     *)
(* sets and does not clear fires.                                          *)
(***************************************************************************)
AttemptFails == \E s \in DOMAIN socks : SocketCloses(s)

TimerExpires == \E t \in DOMAIN timers : TimerFires(t)

PageChanges ==
    \E T \in PageIds : subscribeSession(T) \/ unsubscribeSession(T)

UnreachableNext ==
    \/ Login
    \/ AttemptFails
    \/ TimerExpires
    \/ disconnect
    \/ PageChanges

UnreachableSpec ==
    /\ Init
    /\ [][UnreachableNext]_vars
    /\ WF_vars(AttemptFails)
    /\ WF_vars(TimerExpires)

(***************************************************************************)
(* Vocabulary of the properties.                                           *)
(***************************************************************************)
\* subscribers_of(T): the connections in the topic's set, none without the key.
SubscribersOf(T) == IF Has(clientsBySession, T) THEN Members(clientsBySession[T]) ELSE {}

OpenSubscribersOf(T) == {c \in SubscribersOf(T) : readyState[c] = "OPEN"}

\* The connections of an identity, none without the key.
ConnectionsOf(I) == IF Has(clientsByUser, I) THEN clientsByUser[I] ELSE {}

Recipients == {sent[i].to : i \in DOMAIN sent}

\* The messages written by the last handler.
Written == {sent[i] : i \in DOMAIN sent}

\* The last event was frame `data` from connection c.
Handled(c, data) == last.op = "message" /\ last.c = c /\ last.data = data

\* The last event was a broadcast envelope that decodes to an object with
\* topic T.
Arrived(T) ==
    /\ last.op = "redis"
    /\ last.data.valid /\ ~last.data.isNull
    /\ Get(last.data.obj, "session_id") = T

\* The last event was a broadcast envelope that is not JSON or has no topic.
ArrivedBad ==
    /\ last.op = "redis"
    /\ (~last.data.valid \/ "session_id" \notin DOMAIN last.data.obj)

\* A write raised while the last envelope was fanned out.
WriteRaised == logged = "Redis message processing error"

\* The envelope for T went to every open subscriber of T and to nobody else,
\* a write that raised counting as sent: when one raised, the connection it
\* raised on is the only open subscriber that can be missing.
SentToSubscribers(T) ==
    /\ Recipients \subseteq OpenSubscribersOf(T)
    /\ Cardinality(OpenSubscribersOf(T) \ Recipients) <= (IF WriteRaised THEN 1 ELSE 0)

\* Apart from the field type, message and envelope carry the same fields.
SameButType(msg, env) ==
    \A f \in (DOMAIN msg \cup DOMAIN env) \ {"type"} : Get(msg, f) = Get(env, f)

(***************************************************************************)
(* C1.  Right after the hub has processed a subscribe_session frame for T  *)
(* from connection c, c is in T's subscriber set; right after it has       *)
(* processed an unsubscribe_session frame for T from c, c is not.          *)
(***************************************************************************)
C1_SubscribeThenMember ==
    \A c \in Conns : \A T \in Topics :
        /\ Handled(c, SubscribeFrame(T)) => c \in SubscribersOf(T)
        /\ Handled(c, UnsubscribeFrame(T)) => c \notin SubscribersOf(T)

C1_Witness ==
    /\ Handled(2, SubscribeFrame("s1"))
    /\ readyState[2] = "OPEN"
    /\ clientsBySession["s1"] = <<1, 2>>

(***************************************************************************)
(* C2.  A decodable envelope with topic T is sent to every connection that *)
(* is in T's subscriber set with an open transport when it arrives, and to *)
(* no other connection; apart from the type marker the delivered fields    *)
(* are the envelope's.  (The bridge changes neither table nor readyState,  *)
(* so the state after the handler shows the sets as they were on arrival.) *)
(***************************************************************************)
C2_DeliveredToExactlySubscribers ==
    \A T \in Topics :
        Arrived(T) =>
            /\ SentToSubscribers(T)
            /\ \A m \in Written : SameButType(JSONParse(m.text).obj, last.data.obj)

(***************************************************************************)
(* C3.  After the close handler has run for connection c, accepted as      *)
(* identity I: c is in no topic's subscriber set and not in I's connection *)
(* set, and unless another connection of I is still registered the key I   *)
(* is absent from clientsByUser.                                           *)
(***************************************************************************)
C3_ClosedLeavesNoTrace ==
    \A c \in Conns :
        (last.op = "close" /\ last.c = c) =>
            LET I == wsUser[c]
                others == {d \in Conns \ {c} : wsUser[d] = I /\ readyState[d] \in {"OPEN", "CLOSING"}}
            IN /\ \A T \in DOMAIN clientsBySession : c \notin SubscribersOf(T)
               /\ c \notin ConnectionsOf(I)
               /\ others = {} => ~Has(clientsByUser, I)
               /\ others # {} => ConnectionsOf(I) = others

C3_Witness ==
    /\ last.op = "close" /\ last.c = 1
    /\ wsUser[1] = "u1" /\ ~Has(clientsByUser, "u1")
    /\ readyState[2] = "OPEN" /\ wsUser[2] = "u2"
    /\ SubscribersOf("s1") = {2}
    /\ ~Has(clientsBySession, "s2")

(***************************************************************************)
(* C4.  An upgrade whose token is missing, malformed, badly signed or      *)
(* expired is rejected: the transport never becomes a connection, no       *)
(* message (so no connected notice) is ever sent on it, and it appears in  *)
(* neither table.                                                          *)
(***************************************************************************)
InvalidToken(token) ==
    ~token.present \/ ~token.wellFormed \/ ~token.signed \/ token.expired

C4_UnauthenticatedRejected ==
    /\ \A c \in Conns :
           (last.op = "upgrade" /\ last.c = c /\ InvalidToken(last.data)) =>
               readyState[c] = "REJECTED" /\ sent = <<>>
    /\ \A c \in Conns :
           readyState[c] = "REJECTED" =>
               /\ c \notin Recipients
               /\ wsUser[c] = Undefined
               /\ \A I \in DOMAIN clientsByUser : c \notin clientsByUser[I]
               /\ \A T \in DOMAIN clientsBySession : c \notin SubscribersOf(T)
    /\ \A I \in DOMAIN clientsByUser :
           \E c \in clientsByUser[I] : wsUser[c] = I /\ readyState[c] \in {"OPEN", "CLOSING"}

C4_Witness ==
    /\ last.op = "upgrade" /\ last.c = 2
    /\ last.data.present /\ last.data.wellFormed /\ last.data.signed /\ last.data.expired
    /\ readyState = <<"OPEN", "REJECTED">>

(***************************************************************************)
(* C5.  As claimed: every message the bridge sends carries                 *)
(* type = "session_update", also for an envelope that has a field named    *)
(* type, and every other envelope field unchanged.                         *)
(***************************************************************************)
C5_TypeAlwaysSessionUpdate ==
    \A T \in Topics :
        Arrived(T) =>
            \A m \in Written :
                /\ Get(JSONParse(m.text).obj, "type") = "session_update"
                /\ SameButType(JSONParse(m.text).obj, last.data.obj)

(***************************************************************************)
(* C5, amended.  Every message the bridge sends carries the envelope's own *)
(* type when the envelope has a field named type, and "session_update"     *)
(* when it has none; every other envelope field is unchanged.              *)
(***************************************************************************)
C5_TypeDefaultsToSessionUpdate ==
    \A T \in Topics :
        Arrived(T) =>
            \A m \in Written :
                LET msg == JSONParse(m.text).obj
                    env == last.data.obj
                IN /\ m.text.valid /\ ~m.text.isNull
                   /\ Get(msg, "type") =
                          IF "type" \in DOMAIN env THEN env["type"] ELSE "session_update"
                   /\ SameButType(msg, env)

C5_Witness ==
    /\ Arrived("s1")
    /\ last.data = TypedEnvelope("s1")
    /\ Recipients = {1, 2}

(***************************************************************************)
(* C6.  If the write to one subscriber of T raises while an envelope is    *)
(* fanned out, every other subscriber of T with an open transport still    *)
(* receives the envelope: at most the one failed connection goes without.  *)
(***************************************************************************)
C6_FailedSendDoesNotStopFanOut ==
    \A T \in Topics :
        (Arrived(T) /\ WriteRaised) =>
            Cardinality(OpenSubscribersOf(T) \ Recipients) <= 1

(***************************************************************************)
(* C7.  No key of clientsBySession maps to an empty subscriber set, and    *)
(* once no connection is registered any more the table is empty.           *)
(***************************************************************************)
C7_NoEmptyTopicSet ==
    /\ \A T \in DOMAIN clientsBySession : clientsBySession[T] # <<>>
    /\ (\A c \in Conns : readyState[c] \in {"CLOSED", "REJECTED"}) =>
           clientsBySession = EmptyObj

(***************************************************************************)
(* C8.  An envelope that is not JSON, or has no session_id, produces no    *)
(* message and changes neither table; the bridge keeps running, so the     *)
(* valid envelope that follows it is delivered to every open subscriber of *)
(* its topic.                                                              *)
(***************************************************************************)
C8_BadEnvelopeStep ==
    (last'.op = "redis"
        /\ (~last'.data.valid \/ "session_id" \notin DOMAIN last'.data.obj)) =>
        /\ sent' = <<>>
        /\ UNCHANGED <<clientsByUser, clientsBySession, subscribedSessions, readyState>>

C8_NextEnvelopeStep ==
    \A T \in Topics :
        (ArrivedBad /\ Arrived(T)') => SentToSubscribers(T)'

C8_BadEnvelopeHarmless == [][C8_BadEnvelopeStep /\ C8_NextEnvelopeStep]_vars

\* The part of C8 about the bad envelope itself.
C8_BadEnvelopeDropped == [][C8_BadEnvelopeStep]_vars

(***************************************************************************)
(* C9.  A frame that is not JSON, or whose type is neither                 *)
(* subscribe_session nor unsubscribe_session, leaves the connection as     *)
(* open as it was, changes neither its subscription set nor the tables,    *)
(* and makes the hub send nothing.                                         *)
(***************************************************************************)
UnusableFrame(data) ==
    \/ ~data.valid
    \/ Get(data.obj, "type") \notin {"subscribe_session", "unsubscribe_session"}

C9_UnusableFrameStep ==
    (last'.op = "message" /\ UnusableFrame(last'.data)) =>
        /\ sent' = <<>>
        /\ UNCHANGED <<readyState, subscribedSessions, clientsByUser, clientsBySession>>

C9_UnusableFrameIgnored == [][C9_UnusableFrameStep]_vars

C9_Witness ==
    /\ Handled(1, Garbage)
    /\ readyState[1] = "OPEN"
    /\ subscribedSessions[1] = {"s1"}
    /\ SubscribersOf("s1") = {1, 2}

(***************************************************************************)
(* C10.  Subscribing is idempotent: from every reachable state, for every  *)
(* connection c and topic T, the subscribe_session branch run twice for    *)
(* (c, T) leaves clientsBySession and c's subscription set exactly as      *)
(* running it once does.                                                   *)
(***************************************************************************)
C10_SubscribeIdempotent ==
    \A c \in Conns : \A T \in Topics :
        LET index1 == SubscribeIndex(clientsBySession, c, T)
            own1 == SubscribeOwn(subscribedSessions[c], T)
        IN /\ SubscribeIndex(index1, c, T) = index1
           /\ SubscribeOwn(own1, T) = own1
           /\ Handled(c, SubscribeFrame(T)) =>
                  index1 = clientsBySession /\ own1 = subscribedSessions[c]

C10_Witness ==
    /\ Handled(1, SubscribeFrame("s2"))
    /\ readyState[1] = "OPEN"
    /\ subscribedSessions[1] = {"s1", "s2"}
    /\ clientsBySession["s2"] = <<2, 1>>
    /\ sent = <<[to |-> 1, text |-> SubscribedAck("s2")]>>

(***************************************************************************)
(* C11.  For every connection c and topic T, c is in T's subscriber set    *)
(* exactly when T is in c's own subscribedSessions.  A connection is a     *)
(* transport between its handshake and its 'close' event; a transport that *)
(* is not a connection is under no topic.                                  *)
(***************************************************************************)
Live(c) == readyState[c] \in {"OPEN", "CLOSING"}

C11_IndexMatchesOwnSet ==
    \A c \in Conns : \A T \in Topics :
        c \in SubscribersOf(T) <=> (Live(c) /\ T \in subscribedSessions[c])

C11_Witness ==
    /\ last.op = "close" /\ last.c = 2
    /\ readyState[1] = "OPEN"
    /\ subscribedSessions[1] = {"s2"}
    /\ clientsBySession = [T \in Topics |-> IF T = "s1" THEN <<>> ELSE <<1>>]

(***************************************************************************)
(* C12.  As claimed: a connection is in the identity index, under the      *)
(* subject of its token, exactly when it has completed the handshake and   *)
(* its transport is open.                                                  *)
(***************************************************************************)
C12_IndexedIffOpen ==
    \A c \in Conns : \A I \in Users :
        c \in ConnectionsOf(I) <=> (readyState[c] = "OPEN" /\ wsUser[c] = I)

(***************************************************************************)
(* C12, amended.  A connection is in the identity index, under the subject *)
(* of its token and under no other identity, exactly from its handshake    *)
(* until its 'close' event is handled: a transport that has started to     *)
(* close stays registered until then.                                      *)
(***************************************************************************)
C12_IndexedUntilCloseEvent ==
    \A c \in Conns : \A I \in Users :
        c \in ConnectionsOf(I) <=> (Live(c) /\ wsUser[c] = I)

C12_Witness ==
    /\ readyState = <<"CLOSING", "OPEN">>
    /\ wsUser = <<"u1", "u1">>
    /\ clientsByUser = [I \in {"u1"} |-> {1, 2}]

(***************************************************************************)
(* C13.  The clean-up of the 'close' handler runs exactly once for a       *)
(* connection that closes, whether or not an 'error' event is emitted for  *)
(* it, before or after the 'close' event: it has run once when the         *)
(* connection is closed, not at all before, and never twice.               *)
(***************************************************************************)
C13_CleanupExactlyOnce ==
    \A c \in Conns :
        /\ cleanups[c] <= 1
        /\ cleanups[c] = 1 <=> readyState[c] = "CLOSED"
        /\ cleanups[c] = 1 =>
               /\ \A I \in Users : c \notin ConnectionsOf(I)
               /\ \A T \in Topics : c \notin SubscribersOf(T)

C13_Witness ==
    /\ last.op = "error" /\ last.c = 1
    /\ readyState = <<"CLOSED", "CLOSING">>
    /\ logged = "WebSocket error"
    /\ cleanups = <<1, 0>>
    /\ SubscribersOf("s1") = {2}

(***************************************************************************)
(* C14.  When the write of a broadcast to connection c raises, c goes      *)
(* through the clean-up of a close (it leaves the identity index and every *)
(* topic's subscriber set) in the same handler, and the membership of      *)
(* every other connection stays as it was.                                 *)
(***************************************************************************)
\* The connection on which the write raised: the open subscriber that follows
\* those the envelope was delivered to.
RaisedOn(T) ==
    LET open == SelectSeq(clientsBySession[T], LAMBDA c : readyState[c] = "OPEN")
    IN open[Len(sent') + 1]

C14_FailedWriteStep ==
    \A T \in Topics :
        (Arrived(T)' /\ WriteRaised') =>
            LET c == RaisedOn(T)
            IN /\ \A I \in Users : c \notin ConnectionsOf(I)'
               /\ \A U \in Topics : c \notin SubscribersOf(U)'
               /\ \A d \in Conns \ {c} :
                      /\ \A I \in Users : d \in ConnectionsOf(I)' <=> d \in ConnectionsOf(I)
                      /\ \A U \in Topics : d \in SubscribersOf(U)' <=> d \in SubscribersOf(U)

C14_FailedWriteClosesConnection == [][C14_FailedWriteStep]_vars

(***************************************************************************)
(* C15.  A connection is sent the update of an envelope for topic T only   *)
(* if the latest control frame for T the hub processed from it is a        *)
(* subscribe_session: one that never subscribed to T, or unsubscribed from *)
(* T without subscribing again, or has closed, is sent nothing.            *)
(***************************************************************************)
C15_OnlySubscribersReceive ==
    \A T \in Topics :
        Arrived(T) => \A c \in Recipients : Live(c) /\ T \in asked[c]

C15_Witness ==
    /\ Arrived("s1")
    /\ readyState = <<"OPEN", "OPEN">>
    /\ Recipients = {1}
    /\ asked[2] = {"s2"}
    /\ Has(clientsBySession, "s2")

(***************************************************************************)
(* C16.  A subscribe_session frame processed for an open connection c is   *)
(* answered by one write on c and none on any other connection: a          *)
(* subscribed message with the session_id of the frame, whatever that is   *)
(* (a topic nobody publishes to, the empty string, no session_id at all).  *)
(* Nothing reaches c only when that one write raises.                      *)
(***************************************************************************)
OpaqueIds == Topics \cup {"", "no-such-session", Undefined}

IsAck(text, sessionId) ==
    /\ text.valid /\ ~text.isNull
    /\ Get(text.obj, "type") = "subscribed"
    /\ Get(text.obj, "session_id") = sessionId
    /\ DOMAIN text.obj \subseteq {"type", "session_id"}

IsConnected(text, userId) ==
    /\ text.valid /\ ~text.isNull
    /\ Get(text.obj, "type") = "connected"
    /\ Get(text.obj, "user_id") = userId

C17_ConnectedNoticeFirst ==
    \A c \in Conns :
        /\ readyState[c] \in {"OPEN", "CLOSING", "CLOSED"} =>
               IsConnected(firstSent[c], wsUser[c])
        /\ readyState[c] \in {"NONE", "REJECTED"} => firstSent[c] = NoInput
        /\ (last.op = "upgrade" /\ last.c = c /\ ~InvalidToken(last.data)) =>
               /\ Len(sent) = 1 /\ sent[1].to = c
               /\ IsConnected(sent[1].text, last.data.user_id)
               /\ c \in ConnectionsOf(last.data.user_id)
        /\ (last.op # "upgrade" /\ c \in Recipients) =>
               /\ IsConnected(firstSent[c], wsUser[c])
               /\ \A m \in Written : ~IsConnected(m.text, wsUser[c])

C17_Witness ==
    /\ Arrived("s2")
    /\ Recipients = {2}
    /\ wsUser[2] = "u2"
    /\ firstSent[2] = ConnectedNotice("u2")
    /\ readyState[1] = "REJECTED"

(***************************************************************************)
(* C18.  An envelope is written to a connection at most once, and only by  *)
(* the handler of its own arrival: the other handlers write nothing but    *)
(* the connected notice of an upgrade and the acknowledgement of a         *)
(* subscribe_session frame, so an envelope that found a connection         *)
(* unsubscribed, closing or closed, or whose write raised, is not sent to  *)
(* it afterwards.                                                          *)
(***************************************************************************)
C18_DeliveredOnArrivalOnly ==
    /\ \A i, j \in DOMAIN sent : i # j => sent[i].to # sent[j].to
    /\ last.op = "redis" =>
           \A m \in Written :
               /\ last.data.valid /\ ~last.data.isNull
               /\ m.text = SessionUpdate(last.data.obj)
               /\ m.to \in OpenSubscribersOf(Get(last.data.obj, "session_id"))
    /\ last.op = "upgrade" =>
           \A m \in Written : m.to = last.c /\ IsConnected(m.text, wsUser[last.c])
    /\ last.op = "message" =>
           \A m \in Written :
               m.to = last.c /\ IsAck(m.text, Get(last.data.obj, "session_id"))
    /\ last.op \notin {"redis", "upgrade", "message"} => sent = <<>>

C18_Witness ==
    /\ Arrived("s2")
    /\ sent = <<>>
    /\ logged = "nothing"
    /\ readyState = <<"OPEN", "CLOSING">>
    /\ Has(clientsBySession, "s2") /\ clientsBySession["s2"] = <<2>>
    /\ asked[1] = {"s1"}

(***************************************************************************)
(* C19.  Once a socket created by a reconnect timer is open, it has        *)
(* carried a subscribe_session frame for every topic that the client was   *)
(* subscribed to on a socket that dropped and that the application still   *)
(* wants, without the application calling subscribeSession again.          *)
(***************************************************************************)
SubscribedBeforeDrop(s) ==
    {T \in wanted : \E d \in 1..(s - 1) : socks[d].state = "CLOSED" /\ T \in socks[d].subs}

C19_ResubscribesAfterReconnect ==
    \A s \in DOMAIN socks :
        (socks[s].by = "reconnect" /\ socks[s].state = "OPEN") =>
            SubscribedBeforeDrop(s) \subseteq socks[s].subs

(***************************************************************************)
(* C20.  As claimed: every close of a socket schedules a reconnection; its *)
(* delay is the first delay (2000 ms) when no failure preceded it in the   *)
(* run, else twice the delay scheduled before it, cut at 30000 ms; so the  *)
(* delays of a run never decrease and never exceed 30000 ms.               *)
(***************************************************************************)
Closes(s) == socks[s].state # "CLOSED" /\ socks'[s].state = "CLOSED"

ScheduledWithBackoff ==
    /\ Len(timers') = Len(timers) + 1
    /\ \A t \in DOMAIN timers : timers'[t] = timers[t]
    /\ LET new == timers'[Len(timers')]
       IN /\ new.state = "PENDING"
          /\ reconnectTimeout' = Len(timers')
          /\ new.delay <= MaxDelay
          /\ reconnectAttempts = 0 => new.delay = 2 * BaseDelay
          /\ reconnectAttempts > 0 =>
                 /\ new.delay = Min(2 * timers[Len(timers)].delay, MaxDelay)
                 /\ new.delay >= timers[Len(timers)].delay

C20_EveryCloseStep ==
    \A s \in DOMAIN socks : Closes(s) => ScheduledWithBackoff

C20_EveryCloseSchedules == [][C20_EveryCloseStep]_vars

(***************************************************************************)
(* C20, amended.  A close of a socket schedules a reconnection, with the   *)
(* delays above, as long as fewer than maxReconnectAttempts reconnections  *)
(* were scheduled since the last open; at the limit it schedules none.     *)
(***************************************************************************)
C20_CloseBelowLimitStep ==
    \A s \in DOMAIN socks :
        Closes(s) =>
            IF reconnectAttempts < maxReconnectAttempts
            THEN ScheduledWithBackoff
            ELSE UNCHANGED <<timers, reconnectTimeout, reconnectAttempts>>

C20_CloseSchedulesBelowLimit == [][C20_CloseBelowLimitStep]_vars

C20_Witness ==
    /\ Len(socks) = 6 /\ socks[6].state = "CLOSED"
    /\ reconnectAttempts = 5
    /\ [t \in DOMAIN timers |-> timers[t].delay] = <<2000, 4000, 8000, 16000, 30000>>
    /\ \A t \in DOMAIN timers : timers[t].state = "FIRED"

(***************************************************************************)
(* C21.  When no socket ever opens, the service sets at most               *)
(* maxReconnectAttempts reconnect timers and creates at most that many     *)
(* sockets after the first one, and from some moment on no timer is        *)
(* pending and every socket is closed: nothing is left that could create   *)
(* another socket.                                                         *)
(***************************************************************************)
Reconnections == {s \in DOMAIN socks : socks[s].by = "reconnect"}

NoTimerPending == \A t \in DOMAIN timers : timers[t].state # "PENDING"

AllSocketsClosed == \A s \in DOMAIN socks : socks[s].state = "CLOSED"

C21_GivesUpAfterMaxAttempts ==
    /\ [](Len(timers) <= maxReconnectAttempts
            /\ Cardinality(Reconnections) <= maxReconnectAttempts)
    /\ <>[](NoTimerPending /\ AllSocketsClosed)

C21_Witness ==
    /\ Cardinality(Reconnections) = maxReconnectAttempts
    /\ Len(timers) = maxReconnectAttempts
    /\ reconnectAttempts = maxReconnectAttempts
    /\ NoTimerPending /\ AllSocketsClosed
    /\ thisWs = Len(socks)

(***************************************************************************)
(* C22.  The hub keeps no subscription across a connection's close: a      *)
(* closed connection is in no topic's set and has no topic of its own, a   *)
(* connection that has just been accepted (also one of an identity that    *)
(* had a connection before) has no topic and is in no topic's set, and a   *)
(* session_update for topic T is written to a connection only when that    *)
(* connection itself sent a subscribe_session frame for T.                 *)
(***************************************************************************)
InNoTopic(c) == \A T \in DOMAIN clientsBySession : c \notin SubscribersOf(T)

JustAccepted(c) == last.op = "upgrade" /\ last.c = c /\ readyState[c] = "OPEN"

C22_NoSubscriptionAcrossClose ==
    \A c \in Conns :
        /\ readyState[c] = "CLOSED" => subscribedSessions[c] = {} /\ InNoTopic(c)
        /\ JustAccepted(c) =>
               subscribedSessions[c] = {} /\ asked[c] = {} /\ InNoTopic(c)
        /\ \A T \in Topics :
               (Arrived(T) /\ c \in Recipients) =>
                   T \in asked[c] /\ T \in subscribedSessions[c]

\* The second connection of u1 is accepted after the first one, which had
\* been accepted, has closed.
C22_Witness ==
    /\ JustAccepted(2)
    /\ readyState = <<"CLOSED", "OPEN">>
    /\ wsUser = <<"u1", "u1">>
    /\ cleanups[1] = 1
    /\ clientsByUser = [I \in {"u1"} |-> {2}]
    /\ clientsBySession = EmptyObj

(***************************************************************************)
(* C23.  The token verifier gives a binary result.  authenticateWS returns *)
(* the same null for a token that is missing, malformed, not signed with   *)
(* the secret or expired, and the payload for every other token.  Every    *)
(* rejected handshake observes the same outcome, whatever was wrong with   *)
(* its token: the one 401 status line, then the transport is destroyed     *)
(* with no message written on it and nothing logged.  A transport reads    *)
(* the 401 status line only when it was rejected.                          *)
(***************************************************************************)
\* What the peer of transport c can observe of its handshake.
Observed(c) == <<reply[c], readyState[c], firstSent[c]>>

C23_RejectionBinary ==
    /\ \A token \in Tokens :
           /\ InvalidToken(token) => authenticateWS(token) = NoUser
           /\ ~InvalidToken(token) =>
                  authenticateWS(token) = [ok |-> TRUE, user_id |-> token.user_id]
    /\ \A c \in Conns :
           /\ (last.op = "upgrade" /\ last.c = c /\ InvalidToken(last.data)) =>
                  /\ Observed(c) = <<Unauthorized, "REJECTED", NoInput>>
                  /\ sent = <<>> /\ logged = "nothing"
           /\ readyState[c] = "REJECTED" <=> reply[c] = Unauthorized
    /\ \A a, b \in Conns :
           (readyState[a] = "REJECTED" /\ readyState[b] = "REJECTED") =>
               Observed(a) = Observed(b)

\* Two handshakes were rejected, the second one for an expired token that is
\* well formed and signed with the secret.
C23_Witness ==
    /\ readyState = <<"REJECTED", "REJECTED">>
    /\ last.op = "upgrade" /\ last.c = 2
    /\ last.data.present /\ last.data.wellFormed /\ last.data.signed /\ last.data.expired
    /\ reply = <<Unauthorized, Unauthorized>>

(***************************************************************************)
(* C24.  Registry mutations are atomic with respect to the fan-out.  Every *)
(* handler runs to its end before the next one starts, so the bridge       *)
(* starts only in states between handlers: there a connection is in a      *)
(* topic's set exactly when the topic is in the connection's own set.  The *)
(* fan-out itself changes neither index nor any connection's own set or    *)
(* readyState, so the set it iterates is the same at its end as at its     *)
(* start, and it writes to members of that set only, in the set's order.   *)
(***************************************************************************)
\* Topic index and own sets agree, for every connection and topic.
IndexAgrees ==
    \A c \in Conns : \A T \in Topics :
        c \in SubscribersOf(T) <=> T \in subscribedSessions[c]

\* seq is list with some of its elements left out.
RECURSIVE IsSubSeq(_, _)
IsSubSeq(seq, list) ==
    IF seq = <<>> THEN TRUE
    ELSE IF list = <<>> THEN FALSE
    ELSE IF Head(seq) = Head(list) THEN IsSubSeq(Tail(seq), Tail(list))
    ELSE IsSubSeq(seq, Tail(list))

C24_FanOutStep ==
    last'.op = "redis" =>
        /\ IndexAgrees
        /\ UNCHANGED <<clientsByUser, clientsBySession, subscribedSessions, readyState>>
        /\ IndexAgrees'
        /\ \A T \in Topics :
               Arrived(T)' =>
                   IsSubSeq([i \in DOMAIN sent' |-> sent'[i].to],
                            IF Has(clientsBySession, T) THEN clientsBySession[T] ELSE <<>>)

C24_MutationsAtomic == [][C24_FanOutStep]_vars

\* An envelope for s1 was fanned out over a set that holds a connection that
\* is closing and one that is open.
C24_Witness ==
    /\ Arrived("s1")
    /\ clientsBySession = [T \in {"s1"} |-> <<2, 1>>]
    /\ readyState = <<"OPEN", "CLOSING">>
    /\ subscribedSessions = <<{"s1"}, {"s1"}>>
    /\ Recipients = {1}

(***************************************************************************)
(* C25.  Handshake, authentication, registration and the handling of       *)
(* subscribe_session and unsubscribe_session frames do not depend on the   *)
(* broadcast channel.  While the channel is down (never subscribed, its    *)
(* subscription failed, or its connection was lost) a handshake with a     *)
(* valid token is accepted, registered under its identity and answered     *)
(* with the connected notice, one with an invalid token is rejected, a     *)
(* subscribe_session frame is recorded in index and own set and            *)
(* acknowledged, an unsubscribe_session frame is undone in both, and the   *)
(* only thing that does not happen is the fan-out of an envelope.  The     *)
(* handlers of the channel itself change no table and write no message.    *)
(***************************************************************************)
ChannelDown == channel # "subscribed"

C25_ChannelDownStep ==
    ChannelDown =>
        /\ last'.op # "redis"
        /\ \A c \in Conns :
               (last'.op = "upgrade" /\ last'.c = c) =>
                   IF InvalidToken(last'.data)
                   THEN readyState'[c] = "REJECTED" /\ sent' = <<>>
                   ELSE /\ readyState'[c] = "OPEN"
                        /\ reply'[c] = SwitchingProtocols
                        /\ Has(clientsByUser', last'.data.user_id)
                        /\ c \in clientsByUser'[last'.data.user_id]
                        /\ sent' = <<[to |-> c,
                                      text |-> ConnectedNotice(last'.data.user_id)]>>
        /\ \A c \in Conns : \A T \in Topics :
               /\ last' = Event("message", c, SubscribeFrame(T)) =>
                      /\ c \in SubscribersOf(T)'
                      /\ T \in subscribedSessions'[c]
                      /\ sent' = IF readyState[c] = "OPEN" /\ logged' = "nothing"
                                 THEN <<[to |-> c, text |-> SubscribedAck(T)]>>
                                 ELSE <<>>
               /\ last' = Event("message", c, UnsubscribeFrame(T)) =>
                      /\ c \notin SubscribersOf(T)'
                      /\ T \notin subscribedSessions'[c]
        /\ last'.op \in {"redis_subscribed", "redis_subscribe_error", "redis_error"} =>
               sent' = <<>> /\ UNCHANGED hubTables

C25_ServesWithoutChannel == [][C25_ChannelDownStep]_vars

\* With the channel down, a handshake was accepted and the connection's
\* subscribe_session frame recorded and acknowledged.
C25_Witness ==
    /\ ChannelDown
    /\ logged = "nothing"
    /\ Handled(2, SubscribeFrame("s1"))
    /\ readyState = <<"REJECTED", "OPEN">>
    /\ sent = <<[to |-> 2, text |-> SubscribedAck("s1")]>>
    /\ clientsBySession = [T \in {"s1"} |-> <<2>>]
    /\ clientsByUser = [I \in {"u2"} |-> {2}]

(***************************************************************************)
(* C26.  An unsubscribe_session frame for a topic that is not in the       *)
(* connection's own set changes neither index nor any connection's own     *)
(* set.  No unsubscribe_session frame, for a topic the connection has or   *)
(* has not, makes the hub write a message to any connection or log an      *)
(* error.                                                                  *)
(***************************************************************************)
C26_UnsubscribeStep ==
    \A c \in Conns : \A T \in Topics :
        last' = Event("message", c, UnsubscribeFrame(T)) =>
            /\ sent' = <<>> /\ logged' = "nothing"
            /\ UNCHANGED <<clientsByUser, readyState, firstSent>>
            /\ T \notin subscribedSessions[c] =>
                   UNCHANGED <<clientsBySession, subscribedSessions>>

C26_UnsubscribeUnknownNoOp == [][C26_UnsubscribeStep]_vars

\* Connection 1 has s1, connection 2 has s2, and connection 1 has sent an
\* unsubscribe_session frame for s2.
C26_Witness ==
    /\ Handled(1, UnsubscribeFrame("s2"))
    /\ subscribedSessions = <<{"s1"}, {"s2"}>>
    /\ clientsBySession = [T \in {"s1", "s2"} |-> IF T = "s1" THEN <<1>> ELSE <<2>>]
    /\ readyState = <<"OPEN", "OPEN">>
    /\ sent = <<>>

(***************************************************************************)
(* C27.  An identity may hold several connections at once.  When the       *)
(* 'close' event of one connection of identity I is handled while other    *)
(* connections of I are registered, the key I stays in the identity index  *)
(* with exactly those other connections, and their own sets and their      *)
(* places in the topic sets are unchanged.                                 *)
(***************************************************************************)
\* The topics in whose set connection c is.
TopicsOf(c) == {T \in DOMAIN clientsBySession : c \in Members(clientsBySession[T])}

C27_CloseStep ==
    \A c \in Conns :
        (last' = Event("close", c, NoInput) /\ readyState[c] # "CLOSED") =>
            LET I == wsUser[c]
                others == ConnectionsOf(I) \ {c}
            IN others # {} =>
                   /\ Has(clientsByUser', I)
                   /\ clientsByUser'[I] = others
                   /\ \A b \in others :
                          /\ subscribedSessions'[b] = subscribedSessions[b]
                          /\ TopicsOf(b)' = TopicsOf(b)
                          /\ readyState'[b] = readyState[b]

C27_KeyStaysWithTheRest == [][C27_CloseStep]_vars

\* Connection 2 of u1 holds s1 and s2; connection 1 of u1 has closed.
C27_Witness ==
    /\ last = Event("close", 1, NoInput)
    /\ wsUser = <<"u1", "u1">>
    /\ readyState = <<"CLOSED", "OPEN">>
    /\ clientsByUser = [I \in {"u1"} |-> {2}]
    /\ subscribedSessions = <<{}, {"s1", "s2"}>>
    /\ clientsBySession = [T \in {"s1", "s2"} |-> <<2>>]

(***************************************************************************)
(* C28.  As claimed: after disconnect(), and until the application calls   *)
(* connect() again, no reconnect timer is set and no socket is created by  *)
(* a timer.  this.ws is null with a socket created before exactly in the   *)
(* states that follow a disconnect() with no connect() since.  The code    *)
(* does not do this: disconnect() leaves the socket's onclose handler in   *)
(* place, and the close event of the socket it has just closed calls       *)
(* attemptReconnect.                                                       *)
(***************************************************************************)
Disconnected == thisWs = 0 /\ socks # <<>>

C28_DisconnectedStep ==
    Disconnected =>
        /\ Len(timers') = Len(timers)
        /\ Len(socks') > Len(socks) => socks'[Len(socks')].by = "connect"

C28_NoReconnectAfterDisconnect == [][C28_DisconnectedStep]_vars

(***************************************************************************)
(* C29.  As claimed: the service has at most one socket that is connecting *)
(* or open and at most one pending reconnect timer.  The code does not     *)
(* keep this: connect() assigns a new socket to this.ws without closing    *)
(* the one it holds, and attemptReconnect overwrites this.reconnectTimeout *)
(* without clearing the timer it holds.                                    *)
(***************************************************************************)
LiveSockets == {s \in DOMAIN socks : socks[s].state \in {"CONNECTING", "OPEN"}}

PendingTimers == {t \in DOMAIN timers : timers[t].state = "PENDING"}

C29_OneSocketOneTimer ==
    /\ Cardinality(LiveSockets) <= 1
    /\ Cardinality(PendingTimers) <= 1

(***************************************************************************)
(* C30.  A subscribeSession or unsubscribeSession call made while this.ws  *)
(* is null or not open writes no frame and changes nothing of the service: *)
(* its sockets, this.ws, the attempt counter and the timers are as before. *)
(* The request is not kept: a frame is written on a socket only by a call  *)
(* made while that socket is this.ws and open, so a socket that opens      *)
(* later carries nothing for the calls made before.                        *)
(***************************************************************************)
\* this.ws?.readyState === WebSocket.OPEN
SocketIsOpen == thisWs # 0 /\ socks[thisWs].state = "OPEN"

\* The step is a subscribeSession or unsubscribeSession call of the page.
PageCall == wanted' # wanted

C30_PageCallStep ==
    /\ (PageCall /\ ~SocketIsOpen) =>
           UNCHANGED <<socks, thisWs, reconnectAttempts, timers, reconnectTimeout>>
    /\ \A s \in DOMAIN socks :
           socks'[s].subs # socks[s].subs => PageCall /\ SocketIsOpen /\ s = thisWs

C30_DroppedWhenNotOpen == [][C30_PageCallStep]_vars

\* The page called subscribeSession("s1") while the only socket was still
\* connecting; the socket has opened since and carries no frame for s1.
C30_Witness ==
    /\ wanted = {"s1"}
    /\ Len(socks) = 1
    /\ thisWs = 1
    /\ socks[1] = [state |-> "OPEN", by |-> "connect", subs |-> {}]
    /\ timers = <<>>

(***************************************************************************)
(* C31.  The attempt counter stays between 0 and maxReconnectAttempts.  It *)
(* is 0 after every open of a socket, it grows by exactly one in the steps *)
(* that set a reconnect timer, and no other step changes it.  The limit    *)
(* therefore bounds consecutive failures only: a close that finds the      *)
(* counter below the limit always sets a timer, so a server that accepts   *)
(* each connection and then closes it is reconnected to again and again,   *)
(* more often than maxReconnectAttempts.                                   *)
(***************************************************************************)
\* The step is the onopen of a socket.
Opens == \E s \in DOMAIN socks : socks[s].state = "CONNECTING" /\ socks'[s].state = "OPEN"

\* The step sets a reconnect timer.
Schedules == Len(timers') = Len(timers) + 1

C31_CounterStep ==
    /\ Opens => reconnectAttempts' = 0
    /\ Schedules <=> reconnectAttempts' = reconnectAttempts + 1
    /\ reconnectAttempts' # reconnectAttempts => Opens \/ Schedules
    /\ ((\E s \in DOMAIN socks : Closes(s)) /\ reconnectAttempts < maxReconnectAttempts)
           => Schedules
    /\ Len(timers') >= Len(timers)

C31_CounterBounds ==
    /\ reconnectAttempts \in 0..maxReconnectAttempts
    /\ reconnectAttempts' \in 0..maxReconnectAttempts
    /\ C31_CounterStep

C31_LimitIsPerFailureRun == [][C31_CounterBounds]_vars

\* One connect() call, and six timers set, each one after a socket that had
\* opened: more reconnections than maxReconnectAttempts, each with the
\* first delay.
C31_Witness ==
    /\ Len(timers) = maxReconnectAttempts + 1
    /\ \A t \in DOMAIN timers : timers[t].delay = ReconnectDelay(1)
    /\ reconnectAttempts = 1
    /\ Cardinality(Reconnections) = maxReconnectAttempts
    /\ Len(socks) = maxReconnectAttempts + 1
    /\ AllSocketsClosed

(***************************************************************************)
(* C32.  Processing a frame from connection c changes the registry for c   *)
(* only.  Every other connection is in a topic's set after the frame       *)
(* exactly when it was before, in the same order among the others, and     *)
(* keeps its own set and its readyState; the identity index is the same    *)
(* after any frame, a subscribe_session or unsubscribe_session included.   *)
(***************************************************************************)
\* The subscribers of T other than c, in the order of the set.
OthersIn(map, T, c) == IF Has(map, T) THEN SetDelete(map[T], c) ELSE <<>>

C32_FrameStep ==
    \A c \in Conns :
        (last'.op = "message" /\ last'.c = c) =>
            /\ clientsByUser' = clientsByUser
            /\ \A T \in Topics :
                   OthersIn(clientsBySession', T, c) = OthersIn(clientsBySession, T, c)
            /\ \A b \in Conns \ {c} :
                   /\ subscribedSessions'[b] = subscribedSessions[b]
                   /\ readyState'[b] = readyState[b]
                   /\ \A T \in Topics : b \in SubscribersOf(T)' <=> b \in SubscribersOf(T)

C32_FrameChangesOwnMembershipOnly == [][C32_FrameStep]_vars

\* Connection 1 has left s1, where connection 2 still is; both are in s2.
C32_Witness ==
    /\ Handled(1, UnsubscribeFrame("s1"))
    /\ clientsBySession = [T \in {"s1", "s2"} |-> IF T = "s1" THEN <<2>> ELSE <<1, 2>>]
    /\ subscribedSessions = <<{"s2"}, {"s1", "s2"}>>
    /\ clientsByUser = [I \in {"u1", "u2"} |-> IF I = "u1" THEN {1} ELSE {2}]

(***************************************************************************)
(* C33.  The subscribe_session branch updates the registry before it       *)
(* writes the acknowledgement and undoes nothing.  When the write raises,  *)
(* the error is logged, nothing is sent, the connection is in the topic's  *)
(* set and the topic in its own set, and the handler leaves readyState and *)
(* the identity index as they were.  Such a connection is removed like any *)
(* other: an unsubscribe_session frame for the topic takes it out of the   *)
(* topic's set and the topic out of its own set, and its 'close' event     *)
(* takes it out of every topic's set.                                      *)
(***************************************************************************)
\* The write of the acknowledgement raised in the step.
AckRaised(c, T) ==
    /\ last' = Event("message", c, SubscribeFrame(T))
    /\ logged' = "WebSocket message error"

C33_SubscribeStep ==
    \A c \in Conns : \A T \in Topics :
        /\ AckRaised(c, T) =>
               /\ sent' = <<>>
               /\ c \in SubscribersOf(T)'
               /\ T \in subscribedSessions'[c]
               /\ subscribedSessions[c] \subseteq subscribedSessions'[c]
               /\ UNCHANGED <<readyState, clientsByUser, cleanups>>
        /\ last' = Event("message", c, UnsubscribeFrame(T)) =>
               c \notin SubscribersOf(T)' /\ T \notin subscribedSessions'[c]
        /\ last' = Event("close", c, NoInput) =>
               c \notin SubscribersOf(T)' /\ subscribedSessions'[c] = {}

C33_RegisteredBeforeAckNoRollback == [][C33_SubscribeStep]_vars

\* The acknowledgement of connection 1's first subscribe_session could not
\* be written: nothing was sent, and the connection is subscribed and open.
C33_Witness ==
    /\ Handled(1, SubscribeFrame("s1"))
    /\ logged = "WebSocket message error"
    /\ sent = <<>>
    /\ readyState[1] = "OPEN"
    /\ clientsBySession = [T \in {"s1"} |-> <<1>>]
    /\ subscribedSessions[1] = {"s1"}
    /\ Has(clientsByUser, wsUser[1]) /\ 1 \in clientsByUser[wsUser[1]]

====
